---------------------------- MODULE Spec2Model ----------------------------
(***************************************************************************)
(* Undo/redo history of a text editor: TextEditActionStack                 *)
(* (src/src/texteditactionstack.js) together with the editor that owns it  *)
(* (the current text and selection it passes in and takes back).           *)
(*                                                                         *)
(* A text is a sequence of characters, each character a one-letter string; *)
(* "NL" stands for the newline character.                                  *)
(***************************************************************************)
EXTENDS Integers, Sequences, FiniteSets, TLC

(***************************************************************************)
(* Bounds of the model.                                                    *)
(***************************************************************************)
\* longest text the editor holds
MaxTextLen == 3
\* most entries the undo history holds (the code's arrays are unbounded)
MaxHistory == 2

\* the characters of the texts; "NL" is '\n'
Chars == {"a", "b", "NL"}

\* the documents the editor loads
Documents == {<<>>, <<"a", "b">>}

\* the identity of the editor that owns the stack, and of the other editor
\* of the same document
OwnIdentify == "X"
OtherIdentify == "Y"

(***************************************************************************)
(* Values.                                                                 *)
(***************************************************************************)
\* new TextSelection(start, end); a caret is a collapsed selection
TextSelection(s, e) == [start |-> s, end |-> e]

\* new TextChange(position, changeType, text)
TextChange(p, k, t) == [position |-> p, changeType |-> k, text |-> t]

\* new TextEditAction(editorIdentify, selectionBefore, selectionAfter, textChanges)
TextEditAction(id, sb, sa, cs) ==
    [editorIdentify |-> id, selectionBefore |-> sb, selectionAfter |-> sa,
     textChanges |-> cs]

\* editorIdentify.equals(other), as the editors implement it (the class in
\* the source is abstract): whether the two identities are the same
Equals(a, b) == a = b

\* a faulty IsNewlines: no text is taken for newlines
NeverNewlines(t) == FALSE

\* /^\n+$/.test(text)
IsNewlines(t) == Len(t) > 0 /\ \A i \in 1..Len(t) : t[i] = "NL"

(***************************************************************************)
(* The text-diffing engine (jstextdiffpatch), from its contract.          *)
(***************************************************************************)
\* whether one change can be applied to text t
ValidChange(t, c) ==
    IF c.changeType = "added"
    THEN c.position <= Len(t)
    ELSE /\ c.position + Len(c.text) <= Len(t)
         /\ SubSeq(t, c.position + 1, c.position + Len(c.text)) = c.text

\* one change applied to a text
ApplyChange(t, c) ==
    IF c.changeType = "added"
    THEN SubSeq(t, 1, c.position) \o c.text \o SubSeq(t, c.position + 1, Len(t))
    ELSE SubSeq(t, 1, c.position)
            \o SubSeq(t, c.position + Len(c.text) + 1, Len(t))

RECURSIVE TextDiffPatchApply(_, _)
\* TextDiffPatch.apply(text, textChanges): the changes replayed in order
TextDiffPatchApply(t, cs) ==
    IF cs = <<>> THEN t
    ELSE TextDiffPatchApply(ApplyChange(t, Head(cs)), Tail(cs))

\* the inverse of one change
ReverseChange(c) ==
    TextChange(c.position,
               IF c.changeType = "added" THEN "removed" ELSE "added",
               c.text)

\* TextDiffPatch.reverse(textChanges): each change inverted, last first
TextDiffPatchReverse(cs) ==
    [i \in 1..Len(cs) |-> ReverseChange(cs[Len(cs) + 1 - i])]

RECURSIVE CommonPrefix(_, _)
\* length of the longest common prefix of two texts
CommonPrefix(a, b) ==
    IF a = <<>> \/ b = <<>> \/ Head(a) # Head(b) THEN 0
    ELSE 1 + CommonPrefix(Tail(a), Tail(b))

\* a text, last character first
Reversed(a) == [i \in 1..Len(a) |-> a[Len(a) + 1 - i]]

\* TextDiffPatch.diff(lastTextContent, textContent): what is removed and what
\* is added between the common prefix and the common suffix
TextDiffPatchDiff(old, new) ==
    LET p == CommonPrefix(old, new)
        ro == SubSeq(old, p + 1, Len(old))
        rn == SubSeq(new, p + 1, Len(new))
        s == CommonPrefix(Reversed(ro), Reversed(rn))
        gone == SubSeq(ro, 1, Len(ro) - s)
        come == SubSeq(rn, 1, Len(rn) - s)
    IN  (IF gone = <<>> THEN <<>> ELSE <<TextChange(p, "removed", gone)>>)
        \o (IF come = <<>> THEN <<>> ELSE <<TextChange(p, "added", come)>>)

\* one offset of a selection moved by one change
PatchOffset(o, c) ==
    IF c.changeType = "added"
    THEN IF c.position <= o THEN o + Len(c.text) ELSE o
    ELSE IF c.position >= o THEN o
         ELSE IF c.position + Len(c.text) <= o THEN o - Len(c.text)
         ELSE c.position

RECURSIVE CursorPatchApply(_, _)
\* CursorPatch.apply(selection, textChanges): the selection as it stands
\* after the changes
CursorPatchApply(sel, cs) ==
    IF cs = <<>> THEN sel
    ELSE CursorPatchApply(
            TextSelection(PatchOffset(sel.start, Head(cs)),
                          PatchOffset(sel.end, Head(cs))),
            Tail(cs))

(***************************************************************************)
(* TextEditActionStack: the two histories and the methods on them.  A      *)
(* method is an operator from the stack's fields (and the arguments) to    *)
(* the fields after the call, the value returned and the events            *)
(* dispatched; an absent value (undefined) is the empty sequence, a        *)
(* present one a sequence of length one.                                   *)
(***************************************************************************)
VARIABLES
    undoActions,    \* this.undoActions, bottom first
    redoActions,    \* this.redoActions, bottom first
    textContent,    \* the editor's text: the argument and result of the calls
    selection,      \* the editor's selection
    call,           \* the last call made: its name, its record argument
                    \* and, for a local edit, the arguments given
    result,         \* what the last call returned
    dispatched,     \* the 'actionCreate' events the last call dispatched
    replaced,       \* the textChanges array of the entry that was on top
                    \* before the last push, as that push left it
    observed,       \* for each of these events, how its subscriber found the
                    \* two histories: as before the call, as after it, or
                    \* neither
    mirror,         \* mirror run: the other editor of the document, with a
                    \* stack of its own, fed with the events dispatched
    producers,      \* history variable: for each entry of the two histories,
                    \* the editors whose edits the entry holds
    baseText,       \* round-trip run: the text when the history was empty
    edits,          \* round-trip run: the edits recorded so far
    undos           \* round-trip run: the undo calls made after them

vars == <<undoActions, redoActions, textContent, selection, call, result,
          dispatched, observed, replaced, mirror, producers, baseText,
          edits, undos>>

\* the event object of super.dispatch('actionCreate', ...)
ActionCreate(type, action) ==
    [textEditActionType |-> type, textEditAction |-> action]

\* the two histories as a subscriber finds them when an event reaches it
Seen(undo, redo) == [undoActions |-> undo, redoActions |-> redo]

\* get canUndo()
CanUndo(undo) == Len(undo) > 0

\* get canRedo()
CanRedo(redo) == Len(redo) > 0

\* an array without its last item: what pop() leaves
Popped(s) == SubSeq(s, 1, Len(s) - 1)

\* the last item of an array
Last(s) == s[Len(s)]

\* a faulty NotSimple: the editor that made the action is not looked at
NotSimpleAnyEditor(undo, cur) ==
    \/ Len(undo) = 0
    \/ Len(cur.textChanges) > 1
    \/ cur.selectionAfter.start # cur.selectionAfter.end

\* a faulty NotSimple: the selection the action leaves is not looked at
NotSimpleAnySelection(undo, cur) ==
    \/ Len(undo) = 0
    \/ Len(cur.textChanges) > 1
    \/ ~Equals(cur.editorIdentify, Last(undo).editorIdentify)

\* pushIntoUndoStack: the test that sends the action to the stack as it is
NotSimple(undo, cur) ==
    \/ Len(undo) = 0
    \/ Len(cur.textChanges) > 1
    \/ cur.selectionAfter.start # cur.selectionAfter.end
    \/ ~Equals(cur.editorIdentify, Last(undo).editorIdentify)

\* a faulty CombinedAdded: the two inserted texts joined in the wrong order
CombinedAddedSwapped(lastTextChange, currentTextChange) ==
    TextChange(lastTextChange.position, "added",
               currentTextChange.text \o lastTextChange.text)

\* pushIntoUndoStack: the combined change of two insertions
CombinedAdded(lastTextChange, currentTextChange) ==
    TextChange(lastTextChange.position, "added",
               lastTextChange.text \o currentTextChange.text)

\* a faulty CombinedDeleted: the two deleted texts joined in the wrong order
CombinedDeletedSwapped(lastTextChange, currentTextChange) ==
    TextChange(lastTextChange.position, "removed",
               currentTextChange.text \o lastTextChange.text)

\* pushIntoUndoStack: the combined change of two deletions made with the
\* 'delete' key
CombinedDeleted(lastTextChange, currentTextChange) ==
    TextChange(lastTextChange.position, "removed",
               lastTextChange.text \o currentTextChange.text)

\* a faulty CombinedBackspaced: the two deleted texts joined in the wrong
\* order
CombinedBackspacedSwapped(lastTextChange, currentTextChange) ==
    TextChange(currentTextChange.position, "removed",
               lastTextChange.text \o currentTextChange.text)

\* a faulty CombinedBackspaced: the combined deletion starts where the last
\* one did
CombinedBackspacedInPlace(lastTextChange, currentTextChange) ==
    TextChange(lastTextChange.position, "removed",
               currentTextChange.text \o lastTextChange.text)

\* pushIntoUndoStack: the combined change of two deletions made with the
\* 'backspace' key
CombinedBackspaced(lastTextChange, currentTextChange) ==
    TextChange(currentTextChange.position, "removed",
               currentTextChange.text \o lastTextChange.text)

\* a faulty Combine: the folded entry holds the combined change only
CombineLastOnly(lastTextChanges, currentTextChange) ==
    LET lastTextChange == Last(lastTextChanges)
        keep == [fold |-> FALSE, textChanges |-> <<currentTextChange>>]
        merged(c) == [fold |-> TRUE, textChanges |-> <<c>>]
    IN  IF IsNewlines(currentTextChange.text) \/ IsNewlines(lastTextChange.text)
        THEN keep
        ELSE IF /\ lastTextChange.changeType = "added"
                /\ currentTextChange.changeType = "added"
        THEN IF currentTextChange.position
                    = lastTextChange.position + Len(lastTextChange.text)
             THEN merged(CombinedAdded(lastTextChange, currentTextChange))
             ELSE keep
        ELSE IF /\ lastTextChange.changeType = "removed"
                /\ currentTextChange.changeType = "removed"
        THEN IF currentTextChange.position = lastTextChange.position
             THEN merged(CombinedDeleted(lastTextChange, currentTextChange))
             ELSE IF currentTextChange.position
                        = lastTextChange.position - Len(currentTextChange.text)
             THEN merged(CombinedBackspaced(lastTextChange, currentTextChange))
             ELSE keep
        ELSE keep

\* pushIntoUndoStack: combinedTextChanges for a simple action, and whether
\* the last entry was popped to be replaced (fold)
Combine(lastTextChanges, currentTextChange) ==
    LET lastTextChange == Last(lastTextChanges)
        keep == [fold |-> FALSE, textChanges |-> <<currentTextChange>>]
        merged(c) == [fold |-> TRUE,
                      textChanges |-> Append(Popped(lastTextChanges), c)]
    IN  IF IsNewlines(currentTextChange.text) \/ IsNewlines(lastTextChange.text)
        THEN keep
        ELSE IF /\ lastTextChange.changeType = "added"
                /\ currentTextChange.changeType = "added"
        THEN IF currentTextChange.position
                    = lastTextChange.position + Len(lastTextChange.text)
             THEN merged(CombinedAdded(lastTextChange, currentTextChange))
             ELSE keep
        ELSE IF /\ lastTextChange.changeType = "removed"
                /\ currentTextChange.changeType = "removed"
        THEN IF currentTextChange.position = lastTextChange.position
             THEN merged(CombinedDeleted(lastTextChange, currentTextChange))
             ELSE IF currentTextChange.position
                        = lastTextChange.position - Len(currentTextChange.text)
             THEN merged(CombinedBackspaced(lastTextChange, currentTextChange))
             ELSE keep
        ELSE keep

\* a faulty pushIntoUndoStack: the redo history is cleared only when the
\* action is pushed as it is, not when it replaces the last entry
PushIntoUndoStackKeepingRedo(undo, redo, cur) ==
    IF NotSimple(undo, cur)
    THEN [undoActions |-> Append(undo, cur), redoActions |-> <<>>,
          lastTextChanges |-> IF undo = <<>> THEN <<>>
                              ELSE Last(undo).textChanges]
    ELSE LET c == Combine(Last(undo).textChanges, cur.textChanges[1])
         IN  [undoActions |->
                  Append(IF c.fold THEN Popped(undo) ELSE undo,
                         TextEditAction(cur.editorIdentify,
                             IF c.fold THEN Last(undo).selectionBefore
                             ELSE cur.selectionBefore,
                             cur.selectionAfter, c.textChanges)),
              redoActions |-> IF c.fold THEN redo ELSE <<>>,
              lastTextChanges |-> Last(undo).textChanges]

\* a faulty pushIntoUndoStack: a folded entry takes the selectionBefore of
\* the action folded into it
PushIntoUndoStackOwnSelection(undo, redo, cur) ==
    IF NotSimple(undo, cur)
    THEN [undoActions |-> Append(undo, cur), redoActions |-> <<>>,
          lastTextChanges |-> IF undo = <<>> THEN <<>>
                              ELSE Last(undo).textChanges]
    ELSE LET c == Combine(Last(undo).textChanges, cur.textChanges[1])
         IN  [undoActions |->
                  Append(IF c.fold THEN Popped(undo) ELSE undo,
                         TextEditAction(cur.editorIdentify,
                             cur.selectionBefore, cur.selectionAfter,
                             c.textChanges)),
              redoActions |-> <<>>,
              lastTextChanges |-> Last(undo).textChanges]

\* pushIntoUndoStack(currentTextEditAction): the histories after the call,
\* and the array lastTextEditAction.textChanges as it is after the call (it
\* is copied with slice(), never written)
PushIntoUndoStack(undo, redo, cur) ==
    IF NotSimple(undo, cur)
    THEN [undoActions |-> Append(undo,
              TextEditAction(cur.editorIdentify, cur.selectionBefore,
                             cur.selectionAfter, cur.textChanges)),
          redoActions |-> <<>>,
          lastTextChanges |-> IF undo = <<>> THEN <<>>
                              ELSE Last(undo).textChanges]
    ELSE LET lastTextEditAction == Last(undo)
             c == Combine(lastTextEditAction.textChanges, cur.textChanges[1])
             selectionBefore == IF c.fold
                                THEN lastTextEditAction.selectionBefore
                                ELSE cur.selectionBefore
         IN  [undoActions |->
                  Append(IF c.fold THEN Popped(undo) ELSE undo,
                         TextEditAction(cur.editorIdentify, selectionBefore,
                                        cur.selectionAfter, c.textChanges)),
              redoActions |-> <<>>,
              lastTextChanges |-> lastTextEditAction.textChanges]

\* clear()
ClearCall ==
    [undoActions |-> <<>>, redoActions |-> <<>>, result |-> <<>>,
     dispatched |-> <<>>,
     seen |-> <<>>]

\* applyTextEditAction(textEditAction, lastTextContent)
ApplyTextEditAction(textEditAction, lastTextContent) ==
    [textContent |-> TextDiffPatchApply(lastTextContent,
                                        textEditAction.textChanges),
     selection |-> textEditAction.selectionAfter]

\* a faulty reverseAction: the selections swapped, the changes left as they
\* are
ReverseActionForward(textEditAction) ==
    TextEditAction(textEditAction.editorIdentify,
                   textEditAction.selectionAfter,
                   textEditAction.selectionBefore,
                   textEditAction.textChanges)

\* reverseAction(textEditAction)
ReverseAction(textEditAction) ==
    TextEditAction(textEditAction.editorIdentify,
                   textEditAction.selectionAfter,
                   textEditAction.selectionBefore,
                   TextDiffPatchReverse(textEditAction.textChanges))

\* a faulty Repacked: the action keeps the identity it has
RepackedAsItIs(textEditAction) == textEditAction

\* the TextEditAction wrapped again with the stack's own identity
Repacked(textEditAction) ==
    TextEditAction(OwnIdentify, textEditAction.selectionBefore,
                   textEditAction.selectionAfter, textEditAction.textChanges)

\* a faulty updateByTextChanges: the event and the value returned hold the
\* action as the undo history stores it
UpdateByTextChangesCallStored(undo, redo, textChanges, lastSelection, sel) ==
    LET textEditAction ==
            TextEditAction(OwnIdentify, lastSelection, sel, textChanges)
        pushed == PushIntoUndoStack(undo, redo, textEditAction)
    IN  [undoActions |-> pushed.undoActions,
         redoActions |-> pushed.redoActions,
         result |-> <<Last(pushed.undoActions)>>,
         dispatched |-> <<ActionCreate("update", Last(pushed.undoActions))>>,
         seen |-> <<Seen(undo, redo)>>]

\* updateByTextChanges(textChanges, lastSelection, selection)
UpdateByTextChangesCall(undo, redo, textChanges, lastSelection, sel) ==
    LET textEditAction ==
            TextEditAction(OwnIdentify, lastSelection, sel, textChanges)
        pushed == PushIntoUndoStack(undo, redo, textEditAction)
    IN  [undoActions |-> pushed.undoActions,
         redoActions |-> pushed.redoActions,
         result |-> <<textEditAction>>,
         dispatched |-> <<ActionCreate("update", textEditAction)>>,
         seen |-> <<Seen(undo, redo)>>]

\* update(lastTextContent, textContent, lastSelection, selection)
UpdateCall(undo, redo, lastTextContent, text, lastSelection, sel) ==
    UpdateByTextChangesCall(undo, redo,
        TextDiffPatchDiff(lastTextContent, text), lastSelection, sel)

\* a faulty updateAndApplyByExternalTextEditAction: the action is pushed as
\* received, never merged into the last entry
ExternalCallVerbatim(undo, redo, textEditAction, lastTextContent, lastSelection) ==
    [undoActions |-> Append(undo, textEditAction),
     redoActions |-> <<>>,
     result |-> <<[textContent |-> TextDiffPatchApply(lastTextContent,
                                        textEditAction.textChanges),
                   selection |-> CursorPatchApply(lastSelection,
                                        textEditAction.textChanges)]>>,
     dispatched |-> <<>>,
     seen |-> <<>>]

\* a faulty updateAndApplyByExternalTextEditAction: the redo history is left
\* as it is
ExternalCallKeepingRedo(undo, redo, textEditAction, lastTextContent, lastSelection) ==
    [undoActions |-> PushIntoUndoStack(undo, redo, textEditAction).undoActions,
     redoActions |-> redo,
     result |-> <<[textContent |-> TextDiffPatchApply(lastTextContent,
                                        textEditAction.textChanges),
                   selection |-> CursorPatchApply(lastSelection,
                                        textEditAction.textChanges)]>>,
     dispatched |-> <<>>,
     seen |-> <<>>]

\* a faulty updateAndApplyByExternalTextEditAction: the action received is
\* announced like a local one
ExternalCallNotifying(undo, redo, textEditAction, lastTextContent, lastSelection) ==
    [undoActions |-> PushIntoUndoStack(undo, redo, textEditAction).undoActions,
     redoActions |-> <<>>,
     result |-> <<[textContent |-> TextDiffPatchApply(lastTextContent,
                                        textEditAction.textChanges),
                   selection |-> CursorPatchApply(lastSelection,
                                        textEditAction.textChanges)]>>,
     dispatched |-> <<ActionCreate("update", textEditAction)>>,
     seen |-> <<Seen(undo, redo)>>]

\* updateAndApplyByExternalTextEditAction(textEditAction, lastTextContent,
\* lastSelection)
ExternalCall(undo, redo, textEditAction, lastTextContent, lastSelection) ==
    LET pushed == PushIntoUndoStack(undo, redo, textEditAction)
    IN  [undoActions |-> pushed.undoActions,
         redoActions |-> pushed.redoActions,
         result |-> <<[textContent |-> TextDiffPatchApply(lastTextContent,
                                            textEditAction.textChanges),
                       selection |-> CursorPatchApply(lastSelection,
                                            textEditAction.textChanges)]>>,
         dispatched |-> <<>>,
         seen |-> <<>>]

\* a faulty undo: with nothing to undo it resets the redo history
UndoCallResetting(undo, redo, lastTextContent) ==
    IF ~CanUndo(undo)
    THEN [undoActions |-> undo, redoActions |-> <<>>, result |-> <<>>,
          dispatched |-> <<>>,
          seen |-> <<>>]
    ELSE LET repackedTextEditAction == Repacked(Last(undo))
             reverseTextEditAction == ReverseAction(repackedTextEditAction)
             applied == ApplyTextEditAction(reverseTextEditAction,
                                            lastTextContent)
         IN  [undoActions |-> Popped(undo),
              redoActions |-> Append(redo, repackedTextEditAction),
              result |-> <<[textContent |-> applied.textContent,
                            selection |-> applied.selection,
                            textEditAction |-> reverseTextEditAction]>>,
              dispatched |-> <<ActionCreate("restore", reverseTextEditAction)>>,
              seen |-> <<Seen(Popped(undo),
                             Append(redo, repackedTextEditAction))>>]

\* a faulty undo: the event is dispatched once the entry is popped, before
\* it is pushed on the redo history
UndoCallNotifyingEarly(undo, redo, lastTextContent) ==
    IF ~CanUndo(undo)
    THEN [undoActions |-> undo, redoActions |-> redo, result |-> <<>>,
          dispatched |-> <<>>, seen |-> <<>>]
    ELSE LET repackedTextEditAction == Repacked(Last(undo))
             reverseTextEditAction == ReverseAction(repackedTextEditAction)
             applied == ApplyTextEditAction(reverseTextEditAction,
                                            lastTextContent)
         IN  [undoActions |-> Popped(undo),
              redoActions |-> Append(redo, repackedTextEditAction),
              result |-> <<[textContent |-> applied.textContent,
                            selection |-> applied.selection,
                            textEditAction |-> reverseTextEditAction]>>,
              dispatched |-> <<ActionCreate("restore", reverseTextEditAction)>>,
              seen |-> <<Seen(Popped(undo), redo)>>]

\* a faulty undo: the event carries the undone action, not its reversal
UndoCallNotifyingForward(undo, redo, lastTextContent) ==
    IF ~CanUndo(undo)
    THEN [undoActions |-> undo, redoActions |-> redo, result |-> <<>>,
          dispatched |-> <<>>, seen |-> <<>>]
    ELSE LET repackedTextEditAction == Repacked(Last(undo))
             reverseTextEditAction == ReverseAction(repackedTextEditAction)
             applied == ApplyTextEditAction(reverseTextEditAction,
                                            lastTextContent)
         IN  [undoActions |-> Popped(undo),
              redoActions |-> Append(redo, repackedTextEditAction),
              result |-> <<[textContent |-> applied.textContent,
                            selection |-> applied.selection,
                            textEditAction |-> reverseTextEditAction]>>,
              dispatched |-> <<ActionCreate("restore", repackedTextEditAction)>>,
              seen |-> <<Seen(Popped(undo),
                              Append(redo, repackedTextEditAction))>>]

\* undo(lastTextContent)
UndoCall(undo, redo, lastTextContent) ==
    IF ~CanUndo(undo)
    THEN [undoActions |-> undo, redoActions |-> redo, result |-> <<>>,
          dispatched |-> <<>>,
          seen |-> <<>>]
    ELSE LET repackedTextEditAction == Repacked(Last(undo))
             reverseTextEditAction == ReverseAction(repackedTextEditAction)
             applied == ApplyTextEditAction(reverseTextEditAction,
                                            lastTextContent)
         IN  [undoActions |-> Popped(undo),
              redoActions |-> Append(redo, repackedTextEditAction),
              result |-> <<[textContent |-> applied.textContent,
                            selection |-> applied.selection,
                            textEditAction |-> reverseTextEditAction]>>,
              dispatched |-> <<ActionCreate("restore", reverseTextEditAction)>>,
              seen |-> <<Seen(Popped(undo),
                             Append(redo, repackedTextEditAction))>>]

\* a faulty redo: the entry goes back on the undo history through
\* pushIntoUndoStack
RedoCallMerging(undo, redo, lastTextContent) ==
    IF ~CanRedo(redo)
    THEN [undoActions |-> undo, redoActions |-> redo, result |-> <<>>,
          dispatched |-> <<>>,
          seen |-> <<>>]
    ELSE LET repackedTextEditAction == Repacked(Last(redo))
             applied == ApplyTextEditAction(repackedTextEditAction,
                                            lastTextContent)
         IN  [undoActions |-> PushIntoUndoStack(undo, Popped(redo),
                                  repackedTextEditAction).undoActions,
              redoActions |-> Popped(redo),
              result |-> <<[textContent |-> applied.textContent,
                            selection |-> applied.selection,
                            textEditAction |-> repackedTextEditAction]>>,
              dispatched |-> <<ActionCreate("restore", repackedTextEditAction)>>,
              seen |-> <<Seen(PushIntoUndoStack(undo, Popped(redo),
                                 repackedTextEditAction).undoActions, Popped(redo))>>]

\* redo(lastTextContent)
RedoCall(undo, redo, lastTextContent) ==
    IF ~CanRedo(redo)
    THEN [undoActions |-> undo, redoActions |-> redo, result |-> <<>>,
          dispatched |-> <<>>,
          seen |-> <<>>]
    ELSE LET repackedTextEditAction == Repacked(Last(redo))
             applied == ApplyTextEditAction(repackedTextEditAction,
                                            lastTextContent)
         IN  [undoActions |-> Append(undo, repackedTextEditAction),
              redoActions |-> Popped(redo),
              result |-> <<[textContent |-> applied.textContent,
                            selection |-> applied.selection,
                            textEditAction |-> repackedTextEditAction]>>,
              dispatched |-> <<ActionCreate("restore", repackedTextEditAction)>>,
              seen |-> <<Seen(Append(undo, repackedTextEditAction),
                             Popped(redo))>>]

(***************************************************************************)
(* The inputs the editor hands to the stack.                               *)
(***************************************************************************)
\* the single changes of text t that carry one of the texts in T and keep
\* the text within MaxTextLen
ChangesOf(t, T) ==
    {c \in [position : 0..Len(t), changeType : {"added", "removed"}, text : T] :
        ValidChange(t, c) /\ Len(ApplyChange(t, c)) <= MaxTextLen}

\* the keys the user presses: the letter "a", the newline, or one of the two
\* deleting keys ("b" comes from the documents, the editor's programs and the
\* other editor)
Keys == {"a", "NL", "Backspace", "Delete"}

\* the text after the user presses key k with selection sel: a character
\* replaces the selection; a deleting key deletes the selection or, at a
\* caret, the character before it (Backspace) or after it (Delete)
KeyText(t, sel, k) ==
    LET before == SubSeq(t, 1, sel.start)
        after == SubSeq(t, sel.end + 1, Len(t))
    IN  IF k \in Chars THEN before \o <<k>> \o after
        ELSE IF sel.start # sel.end THEN before \o after
        ELSE IF k = "Backspace"
        THEN SubSeq(t, 1, sel.start - 1) \o after
        ELSE before \o SubSeq(t, sel.end + 2, Len(t))

\* the caret after the user presses key k with selection sel
KeyCaret(sel, k) ==
    IF k \in Chars THEN sel.start + 1
    ELSE IF sel.start = sel.end /\ k = "Backspace" /\ sel.start > 0
    THEN sel.start - 1
    ELSE sel.start

\* what the editor's own programs change (a replacement at two places): "a"
\* inserted at the start, then "b" inserted or deleted at the end
Replaced(t) ==
    UNION {{<<c, d>> : d \in {x \in ChangesOf(ApplyChange(t, c), {<<"b">>}) :
                                x.position + Len(x.text)
                                    >= Len(ApplyChange(t, c))}} :
                c \in {x \in ChangesOf(t, {<<"a">>}) :
                            x.position = 0 /\ x.changeType = "added"}}

\* a completion the editor inserts and leaves selected
Completed(t, sel) ==
    {c \in ChangesOf(t, {<<"a">>}) :
        c.changeType = "added" /\ c.position = sel.end}

\* what the other editor of the document types: "b", at the start of the
\* text or where the last change of the history top ended, or a deletion of
\* "b" there (by Delete) or right before it (by Backspace)
TypedElsewhere(t, undo) ==
    {c \in ChangesOf(t, {<<"b">>}) :
        \/ c.changeType = "added" /\ c.position = 0
        \/ /\ undo # <<>>
           /\ LET l == Last(Last(undo).textChanges)
                  end == IF l.changeType = "added"
                         THEN l.position + Len(l.text)
                         ELSE l.position
              IN  IF c.changeType = "added" THEN c.position = end
                  ELSE c.position \in {end, end - 1}}

\* where the caret ends after a change
EndOf(c) == IF c.changeType = "added" THEN c.position + Len(c.text)
            ELSE c.position

\* a caret
Caret(p) == TextSelection(p, p)

\* the records the other editor of the same document sends
ExternalActions(t, undo) ==
    {TextEditAction(OtherIdentify, Caret(c.position), Caret(EndOf(c)), <<c>>) :
        c \in TypedElsewhere(t, undo)}

\* another editor on text t, with an empty stack of its own
Mirroring(t) ==
    [textContent |-> t, selection |-> Caret(0), undoActions |-> <<>>,
     redoActions |-> <<>>, dispatched |-> <<>>]

(***************************************************************************)
(* The state machine: the editor calls the stack, then takes the text and  *)
(* the selection the call gives it.                                        *)
(***************************************************************************)
Init ==
    /\ undoActions = <<>>
    /\ redoActions = <<>>
    /\ textContent = <<>>
    /\ selection = TextSelection(0, 0)
    /\ call = [name |-> "new", args |-> <<>>]
    /\ result = <<>>
    /\ dispatched = <<>>
    /\ observed = <<>>
    /\ replaced = <<>>
    /\ mirror = Mirroring(textContent)
    /\ producers = [undo |-> <<>>, redo |-> <<>>]
    /\ baseText = <<>>
    /\ edits = 0
    /\ undos = 0

\* the stack's fields and outputs after a call that returned r
Returned(r) ==
    /\ undoActions' = r.undoActions
    /\ redoActions' = r.redoActions
    /\ result' = r.result
    /\ dispatched' = r.dispatched
    /\ observed' = [i \in 1..Len(r.seen) |->
                        IF r.seen[i] = Seen(undoActions, redoActions)
                        THEN "before"
                        ELSE IF r.seen[i] = Seen(r.undoActions, r.redoActions)
                        THEN "after"
                        ELSE "partial"]

\* the producers after pushIntoUndoStack took an action of editor id: a new
\* entry is that editor's, a replaced top entry is also that editor's; and
\* what the push left of the array of the former top entry
Pushed(id) ==
    /\ replaced' = PushIntoUndoStack(undoActions, redoActions,
                                     call'.args[1]).lastTextChanges
    /\ producers' =
        [undo |-> IF Len(undoActions') > Len(undoActions)
                  THEN Append(producers.undo, {id})
                  ELSE Append(Popped(producers.undo),
                              Last(producers.undo) \cup {id}),
         redo |-> IF redoActions' = <<>> THEN <<>> ELSE producers.redo]

\* the producers after undo (from = "undo") or redo (from = "redo") moved
\* the top entry of one history onto the other; a call that returned
\* nothing moved none
Moved(from, to) ==
    /\ replaced' = <<>>
    /\ producers' =
        IF result' = <<>> THEN producers
        ELSE [x \in {from, to} |->
                IF x = from THEN Popped(producers[from])
                ELSE Append(producers[to], Last(producers[from]))]

\* the user presses a key, at the selection or after moving the caret to
\* the start of the text; the editor calls update with the text and the
\* selection before and after
UpdateStep ==
    /\ Len(undoActions) < MaxHistory
    /\ \E lastSelection \in {selection, Caret(0)}, k \in Keys :
        LET new == KeyText(textContent, lastSelection, k)
            sel == Caret(KeyCaret(lastSelection, k))
        IN  /\ new # textContent
            /\ Len(new) <= MaxTextLen
            /\ Returned(UpdateCall(undoActions, redoActions, textContent,
                                   new, lastSelection, sel))
            /\ textContent' = new
            /\ selection' = sel
            /\ call' = [name |-> "update", args |-> result',
                        given |-> [textChanges |->
                                       TextDiffPatchDiff(textContent, new),
                                   lastSelection |-> lastSelection,
                                   selection |-> sel]]
            /\ Pushed(OwnIdentify)

\* the editor reports the changes one of its programs made
UpdateByTextChangesStep ==
    /\ Len(undoActions) < MaxHistory
    /\ \E e \in {[textChanges |-> cs, selection |-> Caret(EndOf(Last(cs)))] :
                    cs \in Replaced(textContent)}
               \cup {[textChanges |-> <<c>>,
                      selection |-> TextSelection(c.position, EndOf(c))] :
                        c \in Completed(textContent, selection)} :
        /\ Returned(UpdateByTextChangesCall(undoActions, redoActions,
                        e.textChanges, selection, e.selection))
        /\ textContent' = TextDiffPatchApply(textContent, e.textChanges)
        /\ selection' = e.selection
        /\ call' = [name |-> "updateByTextChanges", args |-> result',
                    given |-> [textChanges |-> e.textChanges,
                               lastSelection |-> selection,
                               selection |-> e.selection]]
        /\ Pushed(OwnIdentify)

\* the user asks for undo; the editor takes the text and selection returned
UndoStep ==
    /\ Returned(UndoCall(undoActions, redoActions, textContent))
    /\ textContent' = IF result' = <<>> THEN textContent
                      ELSE result'[1].textContent
    /\ selection' = IF result' = <<>> THEN selection ELSE result'[1].selection
    /\ call' = [name |-> "undo", args |-> <<>>]
    /\ Moved("undo", "redo")

\* what the round-trip run counts, and the mirror, stay as they are
Uncounted == UNCHANGED <<baseText, edits, undos, mirror>>

Update == UpdateStep /\ Uncounted

UpdateByTextChanges == UpdateByTextChangesStep /\ Uncounted

\* a record arrives from the other editor of the document; the editor takes
\* the text and selection returned
External ==
    /\ Len(undoActions) < MaxHistory
    /\ \E a \in ExternalActions(textContent, undoActions) :
        /\ Returned(ExternalCall(undoActions, redoActions, a, textContent,
                                 selection))
        /\ textContent' = result'[1].textContent
        /\ selection' = result'[1].selection
        /\ call' = [name |-> "external", args |-> <<a>>]
        /\ Pushed(a.editorIdentify)
    /\ Uncounted

Undo == UndoStep /\ Uncounted

\* the user asks for redo; the editor takes the text and selection returned
RedoStep ==
    /\ Returned(RedoCall(undoActions, redoActions, textContent))
    /\ textContent' = IF result' = <<>> THEN textContent
                      ELSE result'[1].textContent
    /\ selection' = IF result' = <<>> THEN selection ELSE result'[1].selection
    /\ call' = [name |-> "redo", args |-> <<>>]
    /\ Moved("redo", "undo")

Redo == RedoStep /\ Uncounted

\* the editor loads a document (or rolls its content back) and calls clear()
Clear ==
    /\ Returned(ClearCall)
    /\ call' = [name |-> "clear", args |-> <<>>]
    /\ textContent' \in Documents
    /\ selection' = TextSelection(0, 0)
    /\ producers' = [undo |-> <<>>, redo |-> <<>>]
    /\ replaced' = <<>>
    /\ Uncounted

Next == Update \/ UpdateByTextChanges \/ External \/ Undo \/ Redo \/ Clear

Spec == Init /\ [][Next]_vars

(***************************************************************************)
(* The round-trip run: a document is loaded, the user edits it up to       *)
(* MaxEdits times, then asks for undo as many times as there were edits.   *)
(***************************************************************************)
MaxEdits == MaxHistory + 1

InitRoundTrip ==
    /\ undoActions = <<>>
    /\ redoActions = <<>>
    /\ textContent \in Documents
    /\ selection = TextSelection(0, 0)
    /\ call = [name |-> "new", args |-> <<>>]
    /\ result = <<>>
    /\ dispatched = <<>>
    /\ observed = <<>>
    /\ replaced = <<>>
    /\ mirror = Mirroring(textContent)
    /\ producers = [undo |-> <<>>, redo |-> <<>>]
    /\ baseText = textContent
    /\ edits = 0
    /\ undos = 0

\* one more local edit, while no undo was asked for yet
RoundTripEdit ==
    /\ undos = 0
    /\ edits < MaxEdits
    /\ UpdateStep \/ UpdateByTextChangesStep
    /\ edits' = edits + 1
    /\ UNCHANGED <<baseText, undos, mirror>>

\* one more undo, on the text the previous one returned
RoundTripUndo ==
    /\ undos < edits
    /\ UndoStep
    /\ undos' = undos + 1
    /\ UNCHANGED <<baseText, edits, mirror>>

NextRoundTrip == RoundTripEdit \/ RoundTripUndo

SpecRoundTrip == InitRoundTrip /\ [][NextRoundTrip]_vars

(***************************************************************************)
(* The mirror run: two editors show one document.  The user works in the   *)
(* first; a subscriber hands every event its stack dispatches to the       *)
(* second editor, which calls updateAndApplyByExternalTextEditAction on    *)
(* its own stack and takes the text and selection returned.  The second    *)
(* editor does nothing of its own.                                         *)
(***************************************************************************)
\* most entries the undo history of the second editor holds
MaxMirrored == MaxHistory + 1

InitMirror ==
    /\ undoActions = <<>>
    /\ redoActions = <<>>
    /\ textContent \in Documents
    /\ selection = TextSelection(0, 0)
    /\ call = [name |-> "new", args |-> <<>>]
    /\ result = <<>>
    /\ dispatched = <<>>
    /\ observed = <<>>
    /\ replaced = <<>>
    /\ mirror = Mirroring(textContent)
    /\ producers = [undo |-> <<>>, redo |-> <<>>]
    /\ baseText = textContent
    /\ edits = 0
    /\ undos = 0

RECURSIVE Delivered(_, _)
\* the second editor after the events es reached it, in their order
Delivered(m, es) ==
    IF es = <<>> THEN m
    ELSE LET r == ExternalCall(m.undoActions, m.redoActions,
                               Head(es).textEditAction, m.textContent,
                               m.selection)
         IN  Delivered([textContent |-> r.result[1].textContent,
                        selection |-> r.result[1].selection,
                        undoActions |-> r.undoActions,
                        redoActions |-> r.redoActions,
                        dispatched |-> m.dispatched \o r.dispatched],
                       Tail(es))

\* the events of the call reach the second editor
Mirrored ==
    /\ Len(mirror.undoActions) < MaxMirrored
    /\ mirror' = Delivered(mirror, dispatched')
    /\ UNCHANGED <<baseText, edits, undos>>

MirrorEdit == (UpdateStep \/ UpdateByTextChangesStep) /\ Mirrored

MirrorUndo == UndoStep /\ Mirrored

MirrorRedo == RedoStep /\ Mirrored

NextMirror == MirrorEdit \/ MirrorUndo \/ MirrorRedo

SpecMirror == InitMirror /\ [][NextMirror]_vars

(***************************************************************************)
(* What the claims are stated with.                                        *)
(***************************************************************************)
\* the calls that hand an action to pushIntoUndoStack
LocalCalls == {"update", "updateByTextChanges"}
PushCalls == LocalCalls \cup {"external"}

\* whether the change cur continues the change last: an insertion where the
\* last insertion ended, a deletion at the same place ('delete') or right
\* before the last one ('backspace')
Continues(last, cur) ==
    \/ /\ last.changeType = "added" /\ cur.changeType = "added"
       /\ cur.position = last.position + Len(last.text)
    \/ /\ last.changeType = "removed" /\ cur.changeType = "removed"
       /\ \/ cur.position = last.position
          \/ cur.position = last.position - Len(cur.text)

\* whether a text consists of newline characters only
OnlyNewlines(t) == t # <<>> /\ \A i \in 1..Len(t) : t[i] = "NL"

\* whether a selection is a caret
Collapsed(sel) == sel.start = sel.end

\* the text an undo returns when called with the histories u, r and text t
UndoText(u, r, t) == UndoCall(u, r, t).result[1].textContent

\* the text and selection the editor has after undo and then redo on the
\* text undo returned, from the present state
UndoThenRedo ==
    LET u == UndoCall(undoActions, redoActions, textContent)
    IN  RedoCall(u.undoActions, u.redoActions, u.result[1].textContent).result[1]

(***************************************************************************)
(* C1. Round trip: from an empty history at text t, after n local edits    *)
(* (folded or not), n undo calls in a row, each on the text the previous   *)
(* one returned (an undo on an empty history returns nothing and leaves    *)
(* the text), end with the text t.                                         *)
(***************************************************************************)
C1_RoundTrip == undos = edits => textContent = baseText

\* three edits, two of them folded, and three undo calls, the last of which
\* found the history empty
C1_Witness ==
    /\ edits = 3 /\ undos = 3
    /\ call.name = "undo" /\ result = <<>>
    /\ baseText = <<"a", "b">>

(***************************************************************************)
(* C2. Undo then redo.  As claimed: whenever canUndo is true, undo on the  *)
(* current text s and then redo on the text undo returned give the text s  *)
(* and the selection the editor had before the undo.                       *)
(***************************************************************************)
C2_Claimed ==
    CanUndo(undoActions) =>
        /\ UndoThenRedo.textContent = textContent
        /\ UndoThenRedo.selection = selection

\* C2 as it holds: undo then redo give the text s, and the selection redo
\* returns is the selectionAfter of the entry that was undone
C2_UndoRedo ==
    CanUndo(undoActions) =>
        /\ UndoThenRedo.textContent = textContent
        /\ UndoThenRedo.selection = Last(undoActions).selectionAfter

\* a redo has just restored the text of a two-change entry, and the
\* selection it returned is not the one the editor had before the undo
\* (then an external edit had moved the caret)
C2_Witness ==
    /\ call.name = "redo" /\ result # <<>>
    /\ CanUndo(undoActions)
    /\ UndoThenRedo.textContent = textContent
    /\ \E i \in 1..Len(undoActions) :
            /\ undoActions[i].selectionAfter # selection \/ i < Len(undoActions)
            /\ Len(undoActions[i].textChanges) > 1

(***************************************************************************)
(* C3. Redo invalidation: after an undo that found an entry the redo       *)
(* history is not empty; after a local edit, appended or folded, the redo  *)
(* history is empty and canRedo is false.                                  *)
(***************************************************************************)
C3_RedoInvalidation ==
    /\ call.name = "undo" /\ result # <<>> => Len(redoActions) > 0
    /\ call.name \in LocalCalls =>
            redoActions = <<>> /\ ~CanRedo(redoActions)

\* a local edit has just been folded into the top entry
C3_Witness ==
    /\ call.name \in LocalCalls
    /\ Len(undoActions) = 1
    /\ Last(undoActions).textChanges # call.args[1].textChanges
    /\ redoActions = <<>>

(***************************************************************************)
(* C4. Folding of insertions: when the editor records an insertion of      *)
(* non-newline text (one change, caret after it) that starts where the     *)
(* last insertion of the top entry of the same editor ended, the history   *)
(* keeps its length, the top entry's last change becomes an insertion at   *)
(* the position of the earlier one with the two texts joined in order, and *)
(* one undo removes the whole run: it returns the text an undo would have  *)
(* returned before this insertion.                                         *)
(***************************************************************************)
C4_InsertionsFold ==
    [][(/\ call'.name \in LocalCalls
        /\ undoActions # <<>>
        /\ Len(call'.args[1].textChanges) = 1
        /\ Collapsed(call'.args[1].selectionAfter)
        /\ Last(undoActions).editorIdentify = call'.args[1].editorIdentify
        /\ call'.args[1].textChanges[1].changeType = "added"
        /\ Last(Last(undoActions).textChanges).changeType = "added"
        /\ ~OnlyNewlines(call'.args[1].textChanges[1].text)
        /\ ~OnlyNewlines(Last(Last(undoActions).textChanges).text)
        /\ call'.args[1].textChanges[1].position
                = Last(Last(undoActions).textChanges).position
                    + Len(Last(Last(undoActions).textChanges).text))
       => /\ Len(undoActions') = Len(undoActions)
          /\ Popped(undoActions') = Popped(undoActions)
          /\ Last(Last(undoActions').textChanges)
                = TextChange(Last(Last(undoActions).textChanges).position,
                             "added",
                             Last(Last(undoActions).textChanges).text
                                \o call'.args[1].textChanges[1].text)
          /\ UndoText(undoActions', redoActions', textContent')
                = UndoText(undoActions, redoActions, textContent)]_vars

\* the editor's program inserted "a" at 0 and "b" at 1, then the user typed
\* "a" at 2: one entry, whose last change is the insertion of "ba" at 1
C4_Witness ==
    /\ call.name = "update"
    /\ call.args[1].textChanges = <<TextChange(2, "added", <<"a">>)>>
    /\ Len(undoActions) = 1
    /\ producers.undo = <<{OwnIdentify}>>
    /\ undoActions[1].textChanges = <<TextChange(0, "added", <<"a">>),
                                      TextChange(1, "added", <<"b", "a">>)>>
    /\ textContent = <<"a", "b", "a">>
    /\ UndoText(undoActions, redoActions, textContent) = <<>>

(***************************************************************************)
(* C5. Insertions of different editors.  As claimed: whenever an insertion *)
(* by one editor is recorded that starts where the last insertion of the   *)
(* top entry ended, and the top entry was produced by a different editor,  *)
(* the history gains a new entry and the previous top entry stays.         *)
(***************************************************************************)
C5_Claimed ==
    [][(/\ call'.name \in PushCalls
        /\ undoActions # <<>>
        /\ Len(call'.args[1].textChanges) = 1
        /\ call'.args[1].textChanges[1].changeType = "added"
        /\ Continues(Last(Last(undoActions).textChanges),
                     call'.args[1].textChanges[1])
        /\ call'.args[1].editorIdentify \notin Last(producers.undo))
       => undoActions' = Append(undoActions, call'.args[1])]_vars

\* C5 as it holds: the same, when the identity the top entry carries is not
\* that of the editor of the insertion (undo and redo stamp the entry they
\* move with the stack's own identity, whoever produced it)
C5_OtherIdentifyAppended ==
    [][(/\ call'.name \in PushCalls
        /\ undoActions # <<>>
        /\ Len(call'.args[1].textChanges) = 1
        /\ call'.args[1].textChanges[1].changeType = "added"
        /\ Continues(Last(Last(undoActions).textChanges),
                     call'.args[1].textChanges[1])
        /\ call'.args[1].editorIdentify # Last(undoActions).editorIdentify)
       => undoActions' = Append(undoActions, call'.args[1])]_vars

\* the editor typed where the other editor's insertion ended: two entries
C5_Witness ==
    /\ call.name = "update"
    /\ Len(undoActions) = 2
    /\ undoActions[1].editorIdentify = OtherIdentify
    /\ undoActions[2] = call.args[1]
    /\ Collapsed(call.args[1].selectionAfter)
    /\ Len(call.args[1].textChanges) = 1
    /\ call.args[1].textChanges[1].changeType = "added"
    /\ ~OnlyNewlines(call.args[1].textChanges[1].text)
    /\ Continues(Last(undoActions[1].textChanges), call.args[1].textChanges[1])

(***************************************************************************)
(* C6. Newlines are never folded: when the text of the one change of the   *)
(* action, or of the last change of the top entry, is newlines only, the   *)
(* history gains a new entry that is the action as it is, and the entries  *)
(* before stay, insertion or deletion, contiguous or not.                  *)
(***************************************************************************)
C6_NewlinesAppended ==
    [][(/\ call'.name \in PushCalls
        /\ undoActions # <<>>
        /\ Len(call'.args[1].textChanges) = 1
        /\ \/ OnlyNewlines(call'.args[1].textChanges[1].text)
           \/ OnlyNewlines(Last(Last(undoActions).textChanges).text))
       => undoActions' = Append(undoActions, call'.args[1])]_vars

\* the editor's newline continues its last change, of another text: two
\* entries
C6_Witness ==
    /\ call.name = "update"
    /\ Len(undoActions) = 2
    /\ undoActions[1].editorIdentify = OwnIdentify
    /\ undoActions[2] = call.args[1]
    /\ Collapsed(call.args[1].selectionAfter)
    /\ OnlyNewlines(call.args[1].textChanges[1].text)
    /\ ~OnlyNewlines(Last(undoActions[1].textChanges).text)
    /\ Continues(Last(undoActions[1].textChanges), call.args[1].textChanges[1])

(***************************************************************************)
(* C7. An action that is not simple is pushed as it is: when the history   *)
(* is empty, or the action has more than one change, or its selectionAfter *)
(* is not a caret, the history gains one entry equal to the action, the    *)
(* entries before stay and the redo history is emptied.  So is an action   *)
(* of one change that does not continue the last change of the top entry   *)
(* (another kind, or another place).                                       *)
(***************************************************************************)
C7_NotSimpleAppended ==
    [][call'.name \in PushCalls =>
        /\ (\/ undoActions = <<>>
            \/ Len(call'.args[1].textChanges) > 1
            \/ ~Collapsed(call'.args[1].selectionAfter))
           => /\ undoActions' = Append(undoActions, call'.args[1])
              /\ redoActions' = <<>>
        /\ (/\ undoActions # <<>>
            /\ Len(call'.args[1].textChanges) = 1
            /\ ~Continues(Last(Last(undoActions).textChanges),
                          call'.args[1].textChanges[1]))
           => /\ undoActions' = Append(undoActions, call'.args[1])
              /\ redoActions' = <<>>]_vars

\* a completion inserted where the editor's last insertion ended, and left
\* selected: two entries
C7_Witness ==
    /\ call.name = "updateByTextChanges"
    /\ Len(undoActions) = 2
    /\ undoActions[1].editorIdentify = OwnIdentify
    /\ undoActions[2] = call.args[1]
    /\ ~Collapsed(call.args[1].selectionAfter)
    /\ Len(call.args[1].textChanges) = 1
    /\ ~OnlyNewlines(Last(undoActions[1].textChanges).text)
    /\ Continues(Last(undoActions[1].textChanges), call.args[1].textChanges[1])

\* whether the stack folds the external action a into the top entry of u
FoldsExternal(u, a) ==
    /\ u # <<>>
    /\ Len(a.textChanges) = 1
    /\ Collapsed(a.selectionAfter)
    /\ Last(u).editorIdentify = a.editorIdentify
    /\ ~OnlyNewlines(a.textChanges[1].text)
    /\ ~OnlyNewlines(Last(Last(u).textChanges).text)
    /\ Continues(Last(Last(u).textChanges), a.textChanges[1])

(***************************************************************************)
(* C8. External edits.  As claimed: an external action is never merged;    *)
(* for every action received the history gains one entry with the          *)
(* selections and changes of the action, the entries below stay, and an    *)
(* undo right after it reverses exactly that action.                       *)
(***************************************************************************)
C8_Claimed ==
    [][call'.name = "external" =>
        /\ undoActions' = Append(undoActions, call'.args[1])
        /\ UndoCall(undoActions', redoActions', textContent').result[1]
                .textEditAction.textChanges
             = TextDiffPatchReverse(call'.args[1].textChanges)
        /\ UndoText(undoActions', redoActions', textContent') = textContent]_vars

\* C8 as it holds: an external action goes through the merge policy of the
\* local ones.  It is pushed as received, and an undo right after it reverses
\* exactly it, unless it is simple and continues the last change of a top
\* entry that carries its identity; then it is folded into that entry, the
\* history keeps its length, and an undo right after it reverses the folded
\* entry.
C8_ExternalMerged ==
    [][call'.name = "external" =>
        IF FoldsExternal(undoActions, call'.args[1])
        THEN /\ Len(undoActions') = Len(undoActions)
             /\ Popped(undoActions') = Popped(undoActions)
             /\ Last(undoActions').selectionBefore
                    = Last(undoActions).selectionBefore
             /\ Last(undoActions').selectionAfter
                    = call'.args[1].selectionAfter
             /\ Len(Last(undoActions').textChanges)
                    = Len(Last(undoActions).textChanges)
             /\ UndoText(undoActions', redoActions', textContent')
                    = UndoText(undoActions, redoActions, textContent)
        ELSE /\ undoActions' = Append(undoActions, call'.args[1])
             /\ UndoCall(undoActions', redoActions', textContent').result[1]
                    .textEditAction.textChanges
                  = TextDiffPatchReverse(call'.args[1].textChanges)
             /\ UndoText(undoActions', redoActions', textContent')
                    = textContent]_vars

\* two insertions received from the other editor are one entry, and one undo
\* removes both
C8_Witness ==
    /\ call.name = "external"
    /\ Len(undoActions) = 1
    /\ producers.undo = <<{OtherIdentify}>>
    /\ Last(undoActions).editorIdentify = OtherIdentify
    /\ Last(undoActions).textChanges # call.args[1].textChanges
    /\ Len(Last(Last(undoActions).textChanges).text) = 2
    /\ UndoText(undoActions, redoActions, textContent) = <<>>

(***************************************************************************)
(* C9. External edits and the redo history.  As claimed: the redo history  *)
(* after an external edit is the redo history before it.                   *)
(***************************************************************************)
C9_Claimed ==
    [][call'.name = "external" => redoActions' = redoActions]_vars

\* C9 as it holds: an external edit empties the redo history, whatever it
\* held, and canRedo is false after it
C9_ExternalClearsRedo ==
    [][call'.name = "external" =>
        /\ Len(redoActions') = 0
        /\ ~CanRedo(redoActions')]_vars

\* an external edit has been recorded on top of an entry of the editor
C9_Witness ==
    /\ call.name = "external"
    /\ Len(undoActions) = 2
    /\ undoActions[1].editorIdentify = OwnIdentify
    /\ undoActions[2] = call.args[1]
    /\ redoActions = <<>>

(***************************************************************************)
(* C10. Identities in the histories.  As claimed: every entry of the undo  *)
(* history and of the redo history carries the stack's own identity.       *)
(***************************************************************************)
C10_Claimed ==
    /\ \A i \in 1..Len(undoActions) :
            undoActions[i].editorIdentify = OwnIdentify
    /\ \A i \in 1..Len(redoActions) :
            redoActions[i].editorIdentify = OwnIdentify

\* C10 as it holds: every entry of the redo history carries the stack's own
\* identity, and so does the top of the undo history after a local edit or
\* a redo; an entry that came in by an external edit keeps the identity it
\* was received with, so an entry of the undo history with another identity
\* holds external edits only
C10_Identities ==
    /\ \A i \in 1..Len(redoActions) :
            redoActions[i].editorIdentify = OwnIdentify
    /\ \A i \in 1..Len(undoActions) :
            undoActions[i].editorIdentify # OwnIdentify
                => producers.undo[i] = {undoActions[i].editorIdentify}
    /\ (call.name \in LocalCalls \/ (call.name = "redo" /\ result # <<>>))
            => Last(undoActions).editorIdentify = OwnIdentify
    /\ call.name = "external"
            => Last(undoActions).editorIdentify = call.args[1].editorIdentify

\* an external entry with the other identity is in the undo history, below
\* an undone entry in the redo history
C10_Witness ==
    /\ call.name = "undo"
    /\ result # <<>>
    /\ Len(redoActions) > 0
    /\ Len(undoActions) > 0
    /\ Last(undoActions).editorIdentify = OtherIdentify
    /\ Last(producers.redo) = {OtherIdentify}

(***************************************************************************)
(* C11. Nothing to undo, nothing to redo: undo called with an empty undo   *)
(* history, or redo with an empty redo history, returns nothing, leaves    *)
(* the two histories as they are and dispatches no event.                  *)
(***************************************************************************)
C11_EmptyNoOp ==
    [][(\/ call'.name = "undo" /\ undoActions = <<>>
        \/ call'.name = "redo" /\ redoActions = <<>>)
       => /\ result' = <<>>
          /\ undoActions' = undoActions
          /\ redoActions' = redoActions
          /\ dispatched' = <<>>]_vars

\* undo was called with nothing left to undo, after an undo: the redo
\* history still holds the undone entry
C11_Witness ==
    /\ call.name = "undo"
    /\ result = <<>>
    /\ dispatched = <<>>
    /\ undoActions = <<>>
    /\ Len(redoActions) = 1

(***************************************************************************)
(* C12. What a local edit returns and announces: the action in the         *)
(* 'update' event and the action returned both hold the stack's identity,  *)
(* the two selections given and the changes of this one edit, also when    *)
(* the entry the history stores is a folded one.                           *)
(***************************************************************************)
C12_UnmergedReturned ==
    call.name \in LocalCalls =>
        /\ result = <<[editorIdentify |-> OwnIdentify,
                       selectionBefore |-> call.given.lastSelection,
                       selectionAfter |-> call.given.selection,
                       textChanges |-> call.given.textChanges]>>
        /\ dispatched = <<[textEditActionType |-> "update",
                           textEditAction |-> result[1]]>>

\* the edit was folded: the stored entry differs from the action returned
\* in selectionBefore and in text
C12_Witness ==
    /\ call.name = "update"
    /\ Len(undoActions) = 1
    /\ Last(undoActions).selectionBefore # result[1].selectionBefore
    /\ Last(undoActions).textChanges # result[1].textChanges
    /\ Last(undoActions).selectionAfter = result[1].selectionAfter
    /\ dispatched[1].textEditAction = result[1]

\* whether the action a, pushed on the history u, is simple and meets a top
\* entry of its identity, with no newline text on either side
Foldable(u, a) ==
    /\ u # <<>>
    /\ Len(a.textChanges) = 1
    /\ Collapsed(a.selectionAfter)
    /\ Last(u).editorIdentify = a.editorIdentify
    /\ ~OnlyNewlines(a.textChanges[1].text)
    /\ ~OnlyNewlines(Last(Last(u).textChanges).text)

C14_FoldedSelections ==
    [][(/\ call'.name \in PushCalls
        /\ Foldable(undoActions, call'.args[1])
        /\ Continues(Last(Last(undoActions).textChanges),
                     call'.args[1].textChanges[1]))
       => /\ Last(undoActions').selectionBefore
                = Last(undoActions).selectionBefore
          /\ Last(undoActions').selectionAfter
                = call'.args[1].selectionAfter
          /\ UndoCall(undoActions', redoActions', textContent')
                    .result[1].selection
                = Last(undoActions).selectionBefore]_vars

\* "a" typed at 0 and "a" typed at 1 are one entry from caret 0 to caret 2,
\* and undo puts the caret at 0
C14_Witness ==
    /\ call.name = "update"
    /\ call.args[1].selectionBefore = Caret(1)
    /\ call.args[1].selectionAfter = Caret(2)
    /\ Len(undoActions) = 1
    /\ Last(undoActions).textChanges
            = <<TextChange(0, "added", <<"a", "a">>)>>
    /\ Last(undoActions).selectionBefore = Caret(0)
    /\ Last(undoActions).selectionAfter = Caret(2)
    /\ UndoCall(undoActions, redoActions, textContent).result[1].selection
            = Caret(0)

(***************************************************************************)
(* C15. What undo and redo move: an undo that finds an entry takes the top *)
(* entry off the undo history and puts on the redo history an entry with   *)
(* its selections and its changes (not reversed) and the stack's identity; *)
(* the other entries of both histories stay.  Redo is the mirror: it takes *)
(* the top of the redo history and puts it on the undo history as it is,   *)
(* unmerged, and keeps the rest of the redo history.  So undo and redo     *)
(* keep the sum of the two lengths.                                        *)
(***************************************************************************)
C15_StackTransfer ==
    [][/\ (call'.name = "undo" /\ undoActions # <<>>)
            => /\ undoActions' = SubSeq(undoActions, 1, Len(undoActions) - 1)
               /\ redoActions'
                    = Append(redoActions,
                        [editorIdentify |-> OwnIdentify,
                         selectionBefore |-> Last(undoActions).selectionBefore,
                         selectionAfter |-> Last(undoActions).selectionAfter,
                         textChanges |-> Last(undoActions).textChanges])
       /\ (call'.name = "redo" /\ redoActions # <<>>)
            => /\ redoActions' = SubSeq(redoActions, 1, Len(redoActions) - 1)
               /\ undoActions'
                    = Append(undoActions,
                        [editorIdentify |-> OwnIdentify,
                         selectionBefore |-> Last(redoActions).selectionBefore,
                         selectionAfter |-> Last(redoActions).selectionAfter,
                         textChanges |-> Last(redoActions).textChanges])
       /\ call'.name \in {"undo", "redo"}
            => Len(undoActions') + Len(redoActions')
                    = Len(undoActions) + Len(redoActions)]_vars

\* redo put back an entry that continues the entry below it and carries its
\* identity: the two stay two entries
C15_Witness ==
    /\ call.name = "redo"
    /\ result # <<>>
    /\ Len(undoActions) = 2
    /\ Foldable(SubSeq(undoActions, 1, 1), undoActions[2])
    /\ Continues(Last(undoActions[1].textChanges), undoActions[2].textChanges[1])
    /\ result[1].textEditAction = undoActions[2]

(***************************************************************************)
(* C16. Which calls dispatch 'actionCreate': a local edit dispatches one   *)
(* event of type update; an undo that finds an entry one of type restore   *)
(* with the reversal of the entry; a redo that finds an entry one of type  *)
(* restore with the entry as replayed; an external edit and clear none.    *)
(***************************************************************************)
C16_WhoNotifies ==
    /\ call.name \in LocalCalls
        => /\ Len(dispatched) = 1
           /\ dispatched[1].textEditActionType = "update"
    /\ (call.name = "undo" /\ result # <<>>)
        => /\ Len(dispatched) = 1
           /\ dispatched[1].textEditActionType = "restore"
           /\ dispatched[1].textEditAction
                = [editorIdentify |-> OwnIdentify,
                   selectionBefore |-> Last(redoActions).selectionAfter,
                   selectionAfter |-> Last(redoActions).selectionBefore,
                   textChanges |->
                        TextDiffPatchReverse(Last(redoActions).textChanges)]
    /\ (call.name = "redo" /\ result # <<>>)
        => /\ Len(dispatched) = 1
           /\ dispatched[1].textEditActionType = "restore"
           /\ dispatched[1].textEditAction = Last(undoActions)
    /\ call.name \in {"external", "clear"} => dispatched = <<>>

\* an edit of the other editor was recorded, undoable here, and nothing was
\* dispatched
C16_Witness ==
    /\ call.name = "external"
    /\ dispatched = <<>>
    /\ result # <<>>
    /\ result[1].textContent = textContent
    /\ CanUndo(undoActions)
    /\ Last(undoActions).editorIdentify = OtherIdentify
    /\ Last(producers.undo) = {OtherIdentify}

(***************************************************************************)
(* C17. No half-changed history is seen: whenever the stack dispatches     *)
(* 'actionCreate', the subscriber finds the two histories either as they   *)
(* were before the call (a local edit: the event comes before the push) or *)
(* as they are after it (undo and redo: the event comes after the pop and  *)
(* the push), never between a pop and a push.                              *)
(***************************************************************************)
C17_NoPartialHistory ==
    /\ Len(observed) = Len(dispatched)
    /\ \A i \in 1..Len(observed) : observed[i] # "partial"
    /\ call.name \in LocalCalls => observed = <<"before">>
    /\ (call.name \in {"undo", "redo"} /\ result # <<>>)
            => observed = <<"after">>

\* a local edit that was folded into the top entry (a pop and a push):
\* its event found the histories as before the call
C17_Witness ==
    /\ call.name = "update"
    /\ observed = <<"before">>
    /\ Len(undoActions) = 1
    /\ Len(Last(Last(undoActions).textChanges).text) = 2
    /\ Len(result[1].textChanges[1].text) = 1

(***************************************************************************)
(* C18. A folded entry replays like the two it stands for: after every     *)
(* fold, the changes of the folded entry applied to the text from before   *)
(* the replaced entry give the text that the changes of the replaced       *)
(* entry and then the change of the action give, which is the text the     *)
(* editor has; and the reversed changes of the folded entry applied to the *)
(* editor's text give the text from before the replaced entry.             *)
(***************************************************************************)
C18_FoldReplays ==
    [][(/\ call'.name \in PushCalls
        /\ Foldable(undoActions, call'.args[1])
        /\ Continues(Last(Last(undoActions).textChanges),
                     call'.args[1].textChanges[1]))
       => LET earlier == TextDiffPatchApply(textContent,
                            TextDiffPatchReverse(Last(undoActions).textChanges))
              folded == Last(undoActions').textChanges
          IN  /\ TextDiffPatchApply(earlier, Last(undoActions).textChanges)
                    = textContent
              /\ TextDiffPatchApply(earlier, folded)
                    = TextDiffPatchApply(
                        TextDiffPatchApply(earlier,
                                           Last(undoActions).textChanges),
                        call'.args[1].textChanges)
              /\ TextDiffPatchApply(earlier, folded) = textContent'
              /\ TextDiffPatchApply(textContent', TextDiffPatchReverse(folded))
                    = earlier]_vars

\* two characters deleted with Delete at one position are one entry, and
\* its reversal puts both back
C18_Witness ==
    /\ call.name \in PushCalls
    /\ undoActions # <<>>
    /\ Last(Last(undoActions).textChanges).changeType = "removed"
    /\ Len(Last(Last(undoActions).textChanges).text) = 2
    /\ call.args[1].textChanges[1].changeType = "removed"
    /\ call.args[1].textChanges[1].position
            = Last(Last(undoActions).textChanges).position
    /\ call.args[1].textChanges[1].text
            = <<Last(Last(undoActions).textChanges).text[2]>>
    /\ Len(UndoText(undoActions, redoActions, textContent))
            = Len(textContent) + 2

(***************************************************************************)
(* C19. Folding into an entry of several changes: when a simple action is  *)
(* folded into a top entry of k > 1 changes, the new top entry has k       *)
(* changes, the first k - 1 are those of the replaced entry in their       *)
(* order, the k-th is the combined change, and the array of the replaced   *)
(* entry is left as it was.                                                *)
(***************************************************************************)
C19_FoldKeepsEarlier ==
    [][(/\ call'.name \in PushCalls
        /\ Foldable(undoActions, call'.args[1])
        /\ Continues(Last(Last(undoActions).textChanges),
                     call'.args[1].textChanges[1])
        /\ Len(Last(undoActions).textChanges) > 1)
       => LET old == Last(undoActions).textChanges
              new == Last(undoActions').textChanges
              k == Len(old)
              last == old[k]
              cur == call'.args[1].textChanges[1]
          IN  /\ Len(new) = k
              /\ \A i \in 1..(k - 1) : new[i] = old[i]
              /\ new[k] = IF cur.changeType = "added" \/ cur.position = last.position
                          THEN [position |-> last.position,
                                changeType |-> cur.changeType,
                                text |-> last.text \o cur.text]
                          ELSE [position |-> cur.position,
                                changeType |-> "removed",
                                text |-> cur.text \o last.text]
              /\ replaced' = old]_vars

\* "b" typed where the second insertion of a two-change entry ended: the
\* entry still has two changes, the second with the two texts
C19_Witness ==
    /\ call.name = "update"
    /\ call.args[1].textChanges[1].changeType = "added"
    /\ undoActions # <<>>
    /\ Len(Last(undoActions).textChanges) = 2
    /\ Len(replaced) = 2
    /\ replaced[1] = Last(undoActions).textChanges[1]
    /\ Last(undoActions).textChanges[2].text
            = replaced[2].text \o call.args[1].textChanges[1].text
    /\ Len(replaced[2].text) = 1

(***************************************************************************)
(* C20. Two editors of one document: when every event the first editor's   *)
(* stack dispatches (the action of a local edit, the reversal an undo      *)
(* applied, the action a redo replayed) reaches the second editor in       *)
(* order and is applied there with                                         *)
(* updateAndApplyByExternalTextEditAction, the second editor has the text  *)
(* of the first after each delivery, and its stack dispatches nothing.     *)
(***************************************************************************)
C20_MirrorConverges ==
    /\ mirror.textContent = textContent
    /\ mirror.dispatched = <<>>

\* the first editor typed two characters (one entry) and undid them: the
\* second has the text of the first, and two entries to undo
C20_Witness ==
    /\ call.name = "undo"
    /\ result # <<>>
    /\ Len(result[1].textEditAction.textChanges[1].text) = 2
    /\ mirror.textContent = textContent
    /\ Len(mirror.undoActions) = 2
    /\ Last(mirror.undoActions).textChanges = result[1].textEditAction.textChanges
    /\ Last(mirror.undoActions).editorIdentify = OwnIdentify

=============================================================================
